---- MODULE Spec2Model ----
(***************************************************************************)
(* HomeStock backend: credential and token lifecycle.                      *)
(*                                                                         *)
(* The state is the users table, the jwt_blacklist table, the wall clock   *)
(* and the log of issued tokens; one action per request handler.  Time is  *)
(* counted in whole seconds since the epoch of the run.  A token is the    *)
(* triple header.payload.signature of the wire format; the header is the   *)
(* key-sorted JSON object jose emits (a record), the payload the JSON      *)
(* object in insertion order (a sequence of key/value entries), and a      *)
(* signature names its algorithm, its key and the message it was made      *)
(* over.                                                                   *)
(***************************************************************************)
EXTENDS Integers, Sequences, FiniteSets, TLC

VARIABLES
    users,        \* homestock.users rows: [id, username, hashed_password]
    nextUserId,   \* the BigInteger primary-key sequence of homestock.users
    blacklist,    \* homestock.jwt_blacklist rows: [jti, username, expires_at]
    now,          \* datetime.now(timezone.utc), in seconds
    issued,       \* log of create_access_token results, oldest first
    justIssued,   \* index in issued of the token the previous step returned, or 0
    loggedOut,    \* tokens for which logout ran to completion
    rejectedTerminal, \* indices in issued of the tokens get_current_user
                  \* rejected as expired (or revoked)
    last,         \* the last request and its outward response
    passwordChanges,  \* per user id, the last successful change_password:
                  \* [id, old, new]
    sessionsBeforePasswordChange, \* indices in issued of the tokens issued to
                  \* a user before a successful change_password of that user
    sessionsBeforeUsernameChange, \* the same for a successful change_username
    registrations, \* log of register requests past require_auth:
                  \* [username, password, free, status, id]; status 0 while
                  \* the INSERT is not yet committed
    initialLedger, \* homestock.jwt_blacklist as the process found it at startup
    requests,     \* requests that run as two steps, read then commit:
                  \* [op, caller, target, a, b, status, matched, at, arg, read]
    item,         \* a row of homestock.items with its item_stock row:
                  \* [name, quantity, updated_at]
    clsInstance,  \* HybridKeyPair._instance: an object id, or 0 for None
    objects,      \* the HybridKeyPair objects allocated so far, by object id
    threads,      \* per thread, its position in HybridKeyPair.__new__ and the
                  \* object it works on or obtained
    generations,  \* number of _generate_keys calls begun
    constructions \* number of HybridKeyPair() calls begun

hist == <<passwordChanges, sessionsBeforePasswordChange,
          sessionsBeforeUsernameChange>>

keyvars == <<clsInstance, objects, threads, generations, constructions>>

\* The state no token or account request touches
elsewhere == <<registrations, initialLedger, requests, item, keyvars>>

vars == <<users, nextUserId, blacklist, now, issued, justIssued, loggedOut,
          rejectedTerminal, last, passwordChanges,
          sessionsBeforePasswordChange, sessionsBeforeUsernameChange,
          registrations, initialLedger, requests, item, clsInstance, objects,
          threads, generations, constructions>>

-----------------------------------------------------------------------------
(* Bounds of the model *)

MaxIssued == 2
MaxClock == 1900

ClockSteps == {1800, 1860}
\* expires_delta arguments: absent, zero, 30 minutes, minus one minute
Deltas == {[none |-> TRUE, secs |-> 0], [none |-> FALSE, secs |-> 0],
           [none |-> FALSE, secs |-> 1800], [none |-> FALSE, secs |-> -60]}
Usernames == {"admin", "bob"}
Passwords == {"pwA", "pwB"}

-----------------------------------------------------------------------------
(* Program constants *)

ALGORITHM == "RS256"
PQC_ALGORITHM == "Dilithium3"
ACCESS_TOKEN_EXPIRE_MINUTES == 30
DEFAULT_USERNAME == "admin"

\* timedelta(minutes = m) in seconds
timedelta_minutes(m) == m * 60

-----------------------------------------------------------------------------
(* Password hashing *)

NoHash == [scheme |-> "", pw |-> ""]

get_password_hash(password) == [scheme |-> "argon2", pw |-> password]

verify_password(plain_password, hashed_password) ==
    /\ hashed_password.scheme = "argon2"
    /\ hashed_password.pw = plain_password

-----------------------------------------------------------------------------
(* Claims: an insertion-ordered dict of typed values *)

StrV(s) == [t |-> "str", s |-> s, n |-> 0]
IntV(n) == [t |-> "int", s |-> "", n |-> n]
DatetimeV(n) == [t |-> "datetime", s |-> "", n |-> n]
NoneV == [t |-> "none", s |-> "", n |-> 0]

HasKey(d, k) == \E i \in DOMAIN d : d[i].k = k

\* dict.get(k): the value, or None
Get(d, k) ==
    IF HasKey(d, k) THEN d[CHOOSE i \in DOMAIN d : d[i].k = k].v ELSE NoneV

\* d[k] = v of a Python dict: in place when the key exists, appended otherwise
DictSet(d, k, v) ==
    IF HasKey(d, k)
    THEN [i \in DOMAIN d |-> IF d[i].k = k THEN [k |-> k, v |-> v] ELSE d[i]]
    ELSE Append(d, [k |-> k, v |-> v])

\* del d[k]
DictDel(d, k) == SelectSeq(d, LAMBDA e : e.k # k)

\* json.loads of a JSON object: keys in order of first appearance, the last
\* value of a repeated key winning
json_loads(text) ==
    LET firsts == SelectSeq([i \in DOMAIN text |->
                                [i |-> i, k |-> text[i].k, v |-> text[i].v]],
                            LAMBDA e : \A j \in 1..(e.i - 1) : text[j].k # e.k)
        lastOf(k) == CHOOSE j \in DOMAIN text :
                        /\ text[j].k = k
                        /\ \A m \in DOMAIN text : text[m].k = k => m <= j
    IN  [i \in DOMAIN firsts |->
            [k |-> firsts[i].k, v |-> text[lastOf(firsts[i].k)].v]]

\* The entries of a dict in the order json.dumps(sort_keys=True) writes them
KeyRank(k) ==
    CASE k = "aud" -> 1 [] k = "exp" -> 2 [] k = "iat" -> 3 [] k = "iss" -> 4
      [] k = "jti" -> 5 [] k = "nbf" -> 6 [] k = "role" -> 7 [] OTHER -> 8
SortedClaims(d) ==
    [i \in DOMAIN d |->
        CHOOSE e \in {d[j] : j \in DOMAIN d} :
            Cardinality({j \in DOMAIN d : KeyRank(d[j].k) < KeyRank(e.k)}) = i - 1]

\* timegm(dt.utctimetuple()): a datetime as integer epoch seconds
timegm(dt) == IntV(dt.n)

-----------------------------------------------------------------------------
(* Key material and signatures *)

\* The process-wide HybridKeyPair singleton
key_pair == [rsa |-> "rsa-2048", dilithium |-> "dilithium3"]

get_rsa_private_key == key_pair.rsa
get_rsa_public_key == key_pair.rsa

NoMsg == [none |-> TRUE]
NoSig == [alg |-> "", key |-> "", msg |-> NoMsg, tamper |-> FALSE]

\* RS256 signature of a signing input (header.payload)
rsa_sign(key, msg) == [alg |-> "RS256", key |-> key, msg |-> msg, tamper |-> FALSE]

rsa_verify(key, msg, sig) ==
    /\ sig.alg = "RS256"
    /\ sig.key = key
    /\ ~sig.tamper
    /\ sig.msg = msg

dilithium_sign(message) ==
    [alg |-> "Dilithium3", key |-> key_pair.dilithium, msg |-> message,
     tamper |-> FALSE]

dilithium_verify(message, signature) ==
    /\ signature.alg = "Dilithium3"
    /\ signature.key = key_pair.dilithium
    /\ ~signature.tamper
    /\ signature.msg = message

-----------------------------------------------------------------------------
(* python-jose: tokens, encoding and decoding *)

NoPqc == [present |-> FALSE, alg |-> "", sig |-> NoSig]
NoHeader == [alg |-> "", typ |-> "", pqc |-> NoPqc]

\* No cookie in the request
NoToken == [kind |-> "none", header |-> NoHeader, payload |-> <<>>, signature |-> NoSig]
\* A cookie that is not three dot-separated base64url JSON segments
Garbage == [kind |-> "garbage", header |-> NoHeader, payload |-> <<>>, signature |-> NoSig]

\* jws._encode_header: {"typ": "JWT", "alg": algorithm} updated with the extra
\* headers, dumped with sort_keys=True (a record: key order cannot vary)
jose_encode_header(algorithm, additional_headers) ==
    [alg |-> IF additional_headers.alg # "" THEN additional_headers.alg ELSE algorithm,
     typ |-> IF additional_headers.typ # "" THEN additional_headers.typ ELSE "JWT",
     pqc |-> additional_headers.pqc]

\* jwt.encode's loop over exp, iat, nbf: datetime values become epoch seconds
jose_time_claims(claims) ==
    [i \in DOMAIN claims |->
        IF claims[i].k \in {"exp", "iat", "nbf"} /\ claims[i].v.t = "datetime"
        THEN [k |-> claims[i].k, v |-> timegm(claims[i].v)]
        ELSE claims[i]]

\* jwt.encode(claims, key, algorithm, headers): the payload is dumped in
\* insertion order (no sort_keys), the signature covers header.payload
jose_jwt_encode(claims, key, algorithm, headers) ==
    LET header == jose_encode_header(algorithm, headers)
        payload == jose_time_claims(claims)
    IN  [kind |-> "jwt", header |-> header, payload |-> payload,
         signature |-> rsa_sign(key, [header |-> header, payload |-> payload])]

\* The comparison of jose_validate_exp turned round
jose_validate_exp_inverted(exp, t) == t < exp

\* jwt._validate_exp: raises ExpiredSignatureError when exp < now
jose_validate_exp(exp, t) == exp < t

\* jwt.decode(token, key, algorithms=[ALGORITHM], issuer=..., audience=...):
\* "ok", or the JWTError raised.  jose verifies the signature over the
\* received header.payload, then validates exp, aud, iss, sub in that order.
jose_jwt_decode(token, key, algorithms, issuer, audience, t) ==
    LET claims == json_loads(token.payload) IN
    IF token.header.alg \notin algorithms THEN "bad_algorithm"
    ELSE IF ~rsa_verify(key, [header |-> token.header, payload |-> token.payload],
                        token.signature)
    THEN "bad_signature"
    ELSE IF HasKey(claims, "exp") /\ jose_validate_exp(Get(claims, "exp").n, t)
    THEN "expired"
    ELSE IF HasKey(claims, "aud") /\ Get(claims, "aud") # StrV(audience)
    THEN "bad_audience"
    ELSE IF HasKey(claims, "iss") /\ Get(claims, "iss") # StrV(issuer)
    THEN "bad_issuer"
    ELSE IF HasKey(claims, "sub") /\ Get(claims, "sub").t # "str"
    THEN "bad_subject"
    ELSE "ok"

-----------------------------------------------------------------------------
(* Token issuance *)

\* An expires_delta argument: None, or a timedelta in seconds
Delta(secs) == [none |-> FALSE, secs |-> secs]

\* expire_at with the timedelta subtracted instead of added
expire_at_subtracted(t, expires_delta) ==
    IF ~expires_delta.none /\ expires_delta.secs # 0
    THEN t - expires_delta.secs
    ELSE t - timedelta_minutes(ACCESS_TOKEN_EXPIRE_MINUTES)

\* The exp datetime (lines 81-84); a zero timedelta is falsy
expire_at(t, expires_delta) ==
    IF ~expires_delta.none /\ expires_delta.secs # 0
    THEN t + expires_delta.secs
    ELSE t + timedelta_minutes(ACCESS_TOKEN_EXPIRE_MINUTES)

\* to_encode after data.copy() and update({exp, iat, iss, aud})
access_token_claims(data, expires_delta, t) ==
    DictSet(DictSet(DictSet(DictSet(data,
        "exp", DatetimeV(expire_at(t, expires_delta))),
        "iat", DatetimeV(t)),
        "iss", StrV("homestock-api")),
        "aud", StrV("homestock-client"))

\* issue_pqc_message over a re-derived encoding: the payload dumped with
\* sort_keys=True
issue_pqc_message_sorted(to_encode) ==
    LET basic_jwt == jose_jwt_encode(to_encode, get_rsa_private_key, ALGORITHM, NoHeader)
    IN  [header |-> basic_jwt.header, payload |-> SortedClaims(basic_jwt.payload)]

\* The message create_access_token hands to dilithium_sign: header.payload
\* of the basic JWT, encoded without the pqc block
issue_pqc_message(to_encode) ==
    LET basic_jwt == jose_jwt_encode(to_encode, get_rsa_private_key, ALGORITHM, NoHeader)
    IN  [header |-> basic_jwt.header, payload |-> basic_jwt.payload]

create_access_token(data, expires_delta, t) ==
    LET to_encode == access_token_claims(data, expires_delta, t)
        message == issue_pqc_message(to_encode)
        dilithium_signature == dilithium_sign(message)
        header_with_pqc ==
            [alg |-> ALGORITHM, typ |-> "JWT",
             pqc |-> [present |-> TRUE, alg |-> PQC_ALGORITHM,
                      sig |-> dilithium_signature]]
    IN  jose_jwt_encode(to_encode, get_rsa_private_key, ALGORITHM, header_with_pqc)

-----------------------------------------------------------------------------
(* Users *)

NoUser == [id |-> 0, username |-> "", hashed_password |-> NoHash]

\* select(User).where(User.username == username).scalar_one_or_none()
get_user_by_username(db_users, username) ==
    IF \E u \in db_users : u.username = username
    THEN CHOOSE u \in db_users : u.username = username
    ELSE NoUser

\* authenticate_user without the password verification
authenticate_user_any_password(db_users, username, password) ==
    get_user_by_username(db_users, username)

authenticate_user(db_users, username, password) ==
    LET user == get_user_by_username(db_users, username) IN
    IF user = NoUser THEN NoUser
    ELSE IF ~verify_password(password, user.hashed_password) THEN NoUser
    ELSE user

-----------------------------------------------------------------------------
(* Token verification *)

\* rebuild_pqc_message re-encoding the payload with sort_keys=True
rebuild_pqc_message_sorted(token) ==
    LET payload_data == json_loads(token.payload)
        basic_jwt == jose_jwt_encode(payload_data, get_rsa_private_key, ALGORITHM,
                                     NoHeader)
    IN  [header |-> basic_jwt.header, payload |-> SortedClaims(basic_jwt.payload)]

\* The message get_current_user rebuilds for the Dilithium3 check: the decoded
\* payload re-encoded under the basic header
rebuild_pqc_message(token) ==
    LET payload_data == json_loads(token.payload)
        basic_jwt == jose_jwt_encode(payload_data, get_rsa_private_key, ALGORITHM,
                                     NoHeader)
    IN  [header |-> basic_jwt.header, payload |-> basic_jwt.payload]

\* verify_pqc accepting a token that carries no pqc block
verify_pqc_optional(token) ==
    LET pqc_data == token.header.pqc IN
    IF ~pqc_data.present THEN "ok"
    ELSE IF pqc_data.alg # PQC_ALGORITHM THEN "pqc_algorithm"
    ELSE IF pqc_data.sig = NoSig THEN "pqc_empty"
    ELSE IF ~dilithium_verify(rebuild_pqc_message(token), pqc_data.sig)
    THEN "pqc_invalid"
    ELSE "ok"

\* Lines 221-301: "ok" or the cause of the rejection
verify_pqc(token) ==
    LET pqc_data == token.header.pqc IN
    IF ~pqc_data.present THEN "pqc_missing"
    ELSE IF pqc_data.alg # PQC_ALGORITHM THEN "pqc_algorithm"
    ELSE IF pqc_data.sig = NoSig THEN "pqc_empty"
    ELSE IF ~dilithium_verify(rebuild_pqc_message(token), pqc_data.sig)
    THEN "pqc_invalid"
    ELSE "ok"

\* Lines 188-309: "ok" or the cause of the rejection
verify_token(access_token, t) ==
    IF access_token.kind = "none" THEN "no_cookie"
    ELSE IF access_token.kind # "jwt" THEN "malformed"
    ELSE LET decoded == jose_jwt_decode(access_token, get_rsa_public_key,
                                        {ALGORITHM}, "homestock-api",
                                        "homestock-client", t)
         IN  IF decoded # "ok" THEN decoded
             ELSE IF Get(json_loads(access_token.payload), "sub") = NoneV
             THEN "no_sub"
             ELSE verify_pqc(access_token)

credentials_exception ==
    [status |-> 401, detail |-> "Could not validate credentials",
     headers |-> "WWW-Authenticate: Bearer"]

\* The HTTPException raised for a cause of rejection
rejection_response(cause) ==
    IF cause = "pqc_invalid"
    THEN [status |-> 401, detail |-> "Post-quantum signature verification failed",
          headers |-> "WWW-Authenticate: Bearer"]
    ELSE IF cause = "pqc_missing"
    THEN [status |-> 401, detail |-> "Token missing post-quantum signature",
          headers |-> "WWW-Authenticate: Bearer"]
    ELSE credentials_exception

\* get_current_user returning whatever the user lookup gave
get_current_user_no_lookup(access_token, db_users, t) ==
    LET cause == verify_token(access_token, t)
        user == get_user_by_username(db_users,
                    Get(json_loads(access_token.payload), "sub").s)
    IN  IF cause # "ok"
        THEN [ok |-> FALSE, cause |-> cause, user |-> NoUser,
              response |-> rejection_response(cause)]
        ELSE [ok |-> TRUE, cause |-> "ok", user |-> user,
              response |-> [status |-> 200, detail |-> "", headers |-> ""]]

\* get_current_user / require_auth: the user, or the rejection
get_current_user(access_token, db_users, t) ==
    LET cause == verify_token(access_token, t)
        user == get_user_by_username(db_users,
                    Get(json_loads(access_token.payload), "sub").s)
    IN  IF cause # "ok"
        THEN [ok |-> FALSE, cause |-> cause, user |-> NoUser,
              response |-> rejection_response(cause)]
        ELSE IF user = NoUser
        THEN [ok |-> FALSE, cause |-> "unknown_subject", user |-> NoUser,
              response |-> credentials_exception]
        ELSE [ok |-> TRUE, cause |-> "ok", user |-> user,
              response |-> [status |-> 200, detail |-> "", headers |-> ""]]

\* The checks get_current_user runs on a cookie, in the order it runs them,
\* up to the one that rejects: jwt.decode verifies the RS256 signature, then
\* validates exp, then aud and iss; the Dilithium3 check follows; the user
\* lookup is last.  The test for a missing sub claim (lines 216-219) lies
\* between the claims validation and the Dilithium3 check.
checks_performed(access_token, db_users, t) ==
    LET cause == verify_token(access_token, t)
        decode == <<"primary_signature", "expiry", "issuer_audience">>
    IN  CASE cause \in {"no_cookie", "malformed"} -> <<>>
          [] cause \in {"bad_algorithm", "bad_signature"} -> SubSeq(decode, 1, 1)
          [] cause = "expired" -> SubSeq(decode, 1, 2)
          [] cause \in {"bad_audience", "bad_issuer", "bad_subject", "no_sub"} ->
                decode
          [] cause \in {"pqc_missing", "pqc_algorithm", "pqc_empty", "pqc_invalid"} ->
                decode \o <<"secondary_signature">>
          [] OTHER -> decode \o <<"secondary_signature", "subject_lookup">>

-----------------------------------------------------------------------------
(* Revocation ledger *)

\* Imported by logout from app.crypto.keys
get_ed25519_public_key == "ed25519"

\* Imported by logout from app.dependencies.auth: add(unique_id, subject,
\* expiry), idempotent on the unique id
blacklist_token(rows, jti, username, expires_at) ==
    IF \E r \in rows : r.jti = jti THEN rows
    ELSE rows \cup {[jti |-> jti, username |-> username, expires_at |-> expires_at]}

\* logout's jwt.decode (PyJWT) with algorithms=["EdDSA"]: "ok" or the error
pyjwt_decode(token, key, algorithms, issuer, audience, t) ==
    LET claims == json_loads(token.payload) IN
    IF token.header.alg \notin algorithms THEN "bad_algorithm"
    ELSE IF ~(/\ token.signature.alg = "EdDSA"
              /\ token.signature.key = key
              /\ ~token.signature.tamper
              /\ token.signature.msg =
                    [header |-> token.header, payload |-> token.payload])
    THEN "bad_signature"
    ELSE IF HasKey(claims, "exp") /\ Get(claims, "exp").n <= t THEN "expired"
    ELSE IF Get(claims, "aud") # StrV(audience) THEN "bad_audience"
    ELSE IF Get(claims, "iss") # StrV(issuer) THEN "bad_issuer"
    ELSE "ok"

\* homestock.cleanup_expired_jwt_tokens(): the rows left by the bulk delete
cleanup_expired_jwt_tokens(rows, t) == {r \in rows : ~(r.expires_at <= t)}

\* cleanup_expired_tokens without its db.commit(): the delete is not kept
cleanup_expired_tokens_uncommitted(rows, t) ==
    [rows |-> rows, deleted_count |-> 0]

\* cleanup_expired_tokens with a DELETE that has no WHERE clause
cleanup_expired_tokens_all(rows, t) ==
    [rows |-> {}, deleted_count |-> 0]

\* cleanup_expired_tokens: runs the bulk delete, commits, and returns
\* deleted_count, which it sets to 0
cleanup_expired_tokens(rows, t) ==
    [rows |-> cleanup_expired_jwt_tokens(rows, t), deleted_count |-> 0]

\* get_blacklist_stats with active counted by its own query
get_blacklist_stats_active_counted(rows, t) ==
    [total |-> Cardinality(rows),
     expired |-> Cardinality({r \in rows : r.expires_at < t}),
     active |-> Cardinality({r \in rows : r.expires_at > t})]

\* get_blacklist_stats: COUNT(*), COUNT(*) WHERE expires_at < NOW(), and
\* active = total - expired
get_blacklist_stats(rows, t) ==
    LET total == Cardinality(rows)
        expired == Cardinality({r \in rows : r.expires_at < t})
    IN  [total |-> total, expired |-> expired, active |-> total - expired]

\* lifespan: the startup cleanup of the ledger found in the database
lifespan(rows, t) == cleanup_expired_tokens(rows, t).rows

-----------------------------------------------------------------------------
(* Requests a client can send *)

resign(header, payload) ==
    [kind |-> "jwt", header |-> header, payload |-> payload,
     signature |-> rsa_sign(key_pair.rsa, [header |-> header, payload |-> payload])]

\* An issued token and what can be made of it: altered or stripped signatures,
\* with the RS256 signature left as issued or valid for the changed token
Variants(tok) ==
    { tok,
      [tok EXCEPT !.signature.tamper = TRUE],
      [tok EXCEPT !.header.pqc = NoPqc],
      resign([tok.header EXCEPT !.pqc = NoPqc], tok.payload),
      [tok EXCEPT !.header.pqc.sig.tamper = TRUE],
      resign([tok.header EXCEPT !.pqc.sig.tamper = TRUE], tok.payload),
      resign([tok.header EXCEPT !.pqc.alg = "Dilithium2"], tok.payload),
      resign([tok.header EXCEPT !.pqc.sig = NoSig], tok.payload),
      resign(tok.header, DictSet(tok.payload, "iss", StrV("other-api"))),
      resign(tok.header, DictDel(tok.payload, "sub")) }

IssuedTokens == {issued[i].token : i \in DOMAIN issued}

\* Any cookie value a request can carry
Presentable == {NoToken, Garbage} \cup UNION {Variants(tok) : tok \in IssuedTokens}

\* The cookie of a client that logged in (or never did)
Cookies == {NoToken} \cup IssuedTokens

Response(status, detail, headers) ==
    [status |-> status, detail |-> detail, headers |-> headers]

\* The issued tokens get_current_user has rejected as expired or revoked
NoteRejection(token, r) ==
    IF r.cause \in {"expired", "revoked"}
    THEN rejectedTerminal \cup {i \in DOMAIN issued : issued[i].token = token}
    ELSE rejectedTerminal

\* The stored state a request finds: the tables, the number of tokens issued
\* so far and the item
Snapshot ==
    [users |-> users, blacklist |-> blacklist, issued |-> Len(issued),
     item |-> item]

\* The threads that can call into the key manager
Threads == {1, 2}

\* A HybridKeyPair object: the generation that set its RSA pair and its
\* Dilithium3 pair (0 for None), and whether _generate_keys raised on it
NewKeyObject == [rsa |-> 0, dilithium |-> 0, failed |-> FALSE]

NoStats == [total |-> 0, expired |-> 0, active |-> 0]

\* a, b: the string arguments of the request (or the kind of value returned);
\* pre: the state it found; n, stats, obj: the number, the counts or the key
\* object the operation returned or read; flag: a condition of the call;
\* checks: the checks get_current_user ran; holders: the ids of the accounts
\* the presented token was issued to
Observed(op, r, response) ==
    [op |-> op, ok |-> r.ok, cause |-> r.cause, response |-> response,
     user |-> r.user, fresh |-> FALSE, again |-> FALSE, afterLogout |-> FALSE,
     at |-> now, exp |-> 0, a |-> "", b |-> "", pre |-> Snapshot,
     n |-> 0, stats |-> NoStats, obj |-> NewKeyObject, flag |-> FALSE,
     checks |-> <<>>, holders |-> {}]

-----------------------------------------------------------------------------
(* State machine *)

\* The key manager once app.crypto.keys is imported: _key_pair holds the one
\* instance, its keys generated
KeysImported ==
    /\ clsInstance = 1
    /\ objects = <<[rsa |-> 1, dilithium |-> 1, failed |-> FALSE]>>
    /\ threads = [t \in Threads |-> [pc |-> "idle", self |-> 0, gen |-> 0, got |-> 1]]
    /\ generations = 1
    /\ constructions = 1

\* initialize_default_user creating a user whatever the table holds
initialize_default_user_unconditional(db_users, new_id, password, fails) ==
    IF fails \/ (\E u \in db_users : u.username = DEFAULT_USERNAME) THEN db_users
    ELSE db_users \cup {[id |-> new_id, username |-> DEFAULT_USERNAME,
                         hashed_password |-> get_password_hash(password)]}

\* initialize_default_user: the users table it leaves.  password is the
\* value generate_secure_password returned; fails: the query or the commit
\* raised, which is logged and followed by a rollback
initialize_default_user(db_users, new_id, password, fails) ==
    IF fails THEN db_users
    ELSE IF db_users # {} THEN db_users
    ELSE {[id |-> new_id, username |-> DEFAULT_USERNAME,
           hashed_password |-> get_password_hash(password)]}

\* The users of a deployment in use: the default user and a registered one
RegisteredUsers ==
    {[id |-> 1, username |-> DEFAULT_USERNAME,
      hashed_password |-> get_password_hash("pwA")],
     [id |-> 2, username |-> "bob",
      hashed_password |-> get_password_hash("pwB")]}

\* The database and the request log as a process finds them
InitState(db_users, next_id, ledger, found) ==
    /\ users = db_users
    /\ nextUserId = next_id
    /\ blacklist = ledger
    /\ initialLedger = found
    /\ requests = <<>>
    /\ item = [name |-> "milk", quantity |-> 1, updated_at |-> 0]
    /\ now = 0
    /\ issued = <<>>
    /\ justIssued = 0
    /\ loggedOut = {}
    /\ rejectedTerminal = {}
    /\ last = Observed("init", [ok |-> TRUE, cause |-> "", user |-> NoUser],
                       Response(200, "", ""))
    /\ passwordChanges = {}
    /\ sessionsBeforePasswordChange = {}
    /\ sessionsBeforeUsernameChange = {}
    /\ registrations = <<>>

\* The stores and the request log after startup, the ledger having held rows
InitWith(rows) == InitState(RegisteredUsers, 3, lifespan(rows, 0), rows)

Init == InitWith({}) /\ KeysImported

\* POST /auth/token: login_user
Login(username, password) ==
    LET user == authenticate_user(users, username, password)
        access_token == create_access_token(
                            <<[k |-> "sub", v |-> StrV(user.username)]>>,
                            Delta(timedelta_minutes(ACCESS_TOKEN_EXPIRE_MINUTES)),
                            now)
    IN  /\ user # NoUser => Len(issued) < MaxIssued
        /\ issued' = IF user = NoUser THEN issued
                     ELSE Append(issued,
                            [token |-> access_token, via |-> "login", user |-> user,
                             at |-> now,
                             expires_delta |->
                                Delta(timedelta_minutes(ACCESS_TOKEN_EXPIRE_MINUTES))])
        /\ justIssued' = IF user = NoUser THEN 0 ELSE Len(issued) + 1
        /\ last' = [(IF user = NoUser
                      THEN Observed("login",
                              [ok |-> FALSE,
                               cause |-> IF get_user_by_username(users, username) = NoUser
                                         THEN "unknown_username"
                                         ELSE "wrong_password",
                               user |-> NoUser],
                              Response(401, "Incorrect username or password",
                                       "WWW-Authenticate: Bearer"))
                      ELSE Observed("login", [ok |-> TRUE, cause |-> "ok", user |-> user],
                                    Response(200, "", "")))
                    EXCEPT !.a = username, !.b = password]
        /\ UNCHANGED <<elsewhere, users, nextUserId, blacklist, now, loggedOut, rejectedTerminal, hist>>

\* GET /auth/me: require_auth alone
GetCurrentUser(token) ==
    LET r == get_current_user(token, users, now) IN
    /\ rejectedTerminal' = NoteRejection(token, r)
    /\ justIssued' = 0
    /\ last' = [Observed("get_current_user", r, r.response) EXCEPT
                  !.fresh = (justIssued # 0 /\ token = issued[justIssued].token),
                  !.again = (\E i \in rejectedTerminal : issued[i].token = token),
                  !.afterLogout = (token \in loggedOut),
                  !.exp = Get(json_loads(token.payload), "exp").n,
                  !.checks = checks_performed(token, users, now),
                  !.a = Get(json_loads(token.payload), "sub").s,
                  !.holders = {issued[i].user.id :
                                  i \in {j \in DOMAIN issued : issued[j].token = token}}]
    /\ UNCHANGED <<elsewhere, users, nextUserId, blacklist, now, issued, loggedOut, hist>>

\* POST /auth/logout
Logout(token) ==
    LET r == get_current_user(token, users, now)
        decoded == pyjwt_decode(token, get_ed25519_public_key, {"EdDSA"},
                                "homestock-api", "homestock-client", now)
        payload == json_loads(token.payload)
        jti == Get(payload, "jti")
        exp == Get(payload, "exp")
        revoke == /\ r.ok
                  /\ decoded = "ok"
                  /\ jti.t = "str" /\ jti.s # ""
                  /\ exp.t = "int" /\ exp.n # 0
    IN  /\ rejectedTerminal' = NoteRejection(token, r)
        /\ justIssued' = 0
        /\ blacklist' = IF revoke
                        THEN blacklist_token(blacklist, jti.s, r.user.username, exp.n)
                        ELSE blacklist
        /\ loggedOut' = IF r.ok THEN loggedOut \cup {token} ELSE loggedOut
        /\ last' = [Observed("logout", r,
                      IF r.ok
                      THEN Response(200,
                                    "Logged out successfully - token has been revoked",
                                    "Set-Cookie: access_token=; Max-Age=0")
                      ELSE r.response)
                    EXCEPT !.a = jti.s]
        /\ UNCHANGED <<elsewhere, users, nextUserId, now, issued, hist>>

\* POST /admin/blacklist/cleanup: cleanup_expired_tokens
CleanupBlacklist(token) ==
    LET r == get_current_user(token, users, now) IN
    /\ rejectedTerminal' = NoteRejection(token, r)
    /\ justIssued' = 0
    /\ blacklist' = IF r.ok THEN cleanup_expired_tokens(blacklist, now).rows
                    ELSE blacklist
    /\ last' = [Observed("cleanup", r,
                  IF r.ok
                  THEN Response(200, "Expired tokens cleaned up successfully", "")
                  ELSE r.response)
                EXCEPT !.n = cleanup_expired_tokens(blacklist, now).deleted_count,
                       !.again = /\ last.op = "cleanup"
                                 /\ last.ok
                                 /\ last.at = now]
    /\ UNCHANGED <<elsewhere, users, nextUserId, now, issued, loggedOut, hist>>

\* GET /admin/blacklist/stats: get_blacklist_stats
BlacklistStats(token) ==
    LET r == get_current_user(token, users, now)
        stats == get_blacklist_stats(blacklist, now)
    IN  /\ rejectedTerminal' = NoteRejection(token, r)
        /\ justIssued' = 0
        /\ last' = [Observed("stats", r,
                      IF r.ok THEN Response(200, "blacklist_stats", "")
                      ELSE r.response)
                    EXCEPT !.stats = IF r.ok THEN stats ELSE NoStats]
        /\ UNCHANGED <<elsewhere, users, nextUserId, blacklist, now, issued,
                       loggedOut, hist>>

\* Time passes
AdvanceClock(d) ==
    /\ now + d <= MaxClock
    /\ now' = now + d
    /\ justIssued' = 0
    /\ UNCHANGED <<elsewhere, users, nextUserId, blacklist, issued, loggedOut,
                   rejectedTerminal, last, hist>>

Next ==
    \/ \E u \in Usernames, p \in Passwords : Login(u, p)
    \/ \E tok \in Presentable : GetCurrentUser(tok)
    \/ \E tok \in Cookies : Logout(tok)
    \/ \E tok \in Cookies : CleanupBlacklist(tok)
    \/ \E d \in ClockSteps : AdvanceClock(d)

Spec == Init /\ [][Next]_vars

-----------------------------------------------------------------------------
(* create_access_token on its own: any data dict, any expires_delta *)

Datas ==
    { <<[k |-> "sub", v |-> StrV("admin")]>>,
      <<[k |-> "exp", v |-> IntV(5)], [k |-> "sub", v |-> StrV("bob")],
        [k |-> "role", v |-> StrV("owner")]>> }

CreateAccessToken(data, expires_delta) ==
    LET access_token == create_access_token(data, expires_delta, now) IN
    /\ Len(issued) < MaxIssued
    /\ issued' = Append(issued,
                    [token |-> access_token, via |-> "create_access_token",
                     user |-> NoUser, at |-> now, expires_delta |-> expires_delta])
    /\ justIssued' = Len(issued) + 1
    /\ last' = Observed("create_access_token",
                        [ok |-> TRUE, cause |-> "ok", user |-> NoUser],
                        Response(200, "", ""))
    /\ UNCHANGED <<elsewhere, users, nextUserId, blacklist, now, loggedOut, rejectedTerminal, hist>>

IssueNext ==
    \/ \E data \in Datas, expires_delta \in Deltas :
            CreateAccessToken(data, expires_delta)
    \/ \E tok \in Cookies : GetCurrentUser(tok)
    \/ \E d \in ClockSteps : AdvanceClock(d)

SpecIssue == Init /\ [][IssueNext]_vars

-----------------------------------------------------------------------------
(* Account operations of auth_service *)

ServiceResult(status, detail, db_users) ==
    [status |-> status, detail |-> detail, users |-> db_users]

\* db.query(User).filter(User.id == user_id).first()
get_user_by_id(db_users, user_id) ==
    IF \E u \in db_users : u.id = user_id
    THEN CHOOSE u \in db_users : u.id = user_id
    ELSE NoUser

\* change_password without the verification of the current password
change_password_unverified(db_users, user_id, current_password, new_password) ==
    LET user == get_user_by_id(db_users, user_id) IN
    IF user = NoUser THEN ServiceResult(404, "User not found", db_users)
    ELSE ServiceResult(200, "Password changed successfully",
            (db_users \ {user}) \cup
                {[user EXCEPT !.hashed_password = get_password_hash(new_password)]})

\* change_password storing the hash of the current password
change_password_keeps_old(db_users, user_id, current_password, new_password) ==
    LET user == get_user_by_id(db_users, user_id) IN
    IF user = NoUser THEN ServiceResult(404, "User not found", db_users)
    ELSE IF ~verify_password(current_password, user.hashed_password)
    THEN ServiceResult(401, "Current password is incorrect", db_users)
    ELSE IF verify_password(new_password, user.hashed_password)
    THEN ServiceResult(400, "New password must be different from current password",
                       db_users)
    ELSE ServiceResult(200, "Password changed successfully",
            (db_users \ {user}) \cup
                {[user EXCEPT !.hashed_password = get_password_hash(current_password)]})

\* auth_service.change_password: the HTTP result and the users table after
\* commit or rollback
change_password(db_users, user_id, current_password, new_password) ==
    LET user == get_user_by_id(db_users, user_id) IN
    IF user = NoUser THEN ServiceResult(404, "User not found", db_users)
    ELSE IF ~verify_password(current_password, user.hashed_password)
    THEN ServiceResult(401, "Current password is incorrect", db_users)
    ELSE IF verify_password(new_password, user.hashed_password)
    THEN ServiceResult(400, "New password must be different from current password",
                       db_users)
    ELSE ServiceResult(200, "Password changed successfully",
            (db_users \ {user}) \cup
                {[user EXCEPT !.hashed_password = get_password_hash(new_password)]})

\* change_username on a table without the unique constraint on username
change_username_no_constraint(db_users, user_id, new_username) ==
    LET user == get_user_by_id(db_users, user_id) IN
    IF user = NoUser THEN ServiceResult(404, "User not found", db_users)
    ELSE IF user.username = new_username
    THEN ServiceResult(400, "New username must be different from current username",
                       db_users)
    ELSE ServiceResult(200, "", (db_users \ {user}) \cup
                                    {[user EXCEPT !.username = new_username]})

\* auth_service.change_username: the commit raises IntegrityError on the
\* unique constraint of users.username, and the update is rolled back
change_username(db_users, user_id, new_username) ==
    LET user == get_user_by_id(db_users, user_id) IN
    IF user = NoUser THEN ServiceResult(404, "User not found", db_users)
    ELSE IF user.username = new_username
    THEN ServiceResult(400, "New username must be different from current username",
                       db_users)
    ELSE IF \E other \in db_users : other.id # user.id /\ other.username = new_username
    THEN ServiceResult(409, "Username already exists", db_users)
    ELSE ServiceResult(200, "", (db_users \ {user}) \cup
                                    {[user EXCEPT !.username = new_username]})

\* The issued tokens login returned to the user with this id
SessionsOf(user_id) == {i \in DOMAIN issued : issued[i].user.id = user_id}

\* PATCH /auth/me/password
ChangePassword(token, current_password, new_password) ==
    LET r == get_current_user(token, users, now)
        result == change_password(users, r.user.id, current_password, new_password)
        changed == r.ok /\ result.status = 200
    IN  /\ rejectedTerminal' = NoteRejection(token, r)
        /\ justIssued' = 0
        /\ users' = IF r.ok THEN result.users ELSE users
        /\ passwordChanges' =
                IF changed
                THEN {c \in passwordChanges : c.id # r.user.id} \cup
                        {[id |-> r.user.id, old |-> current_password,
                          new |-> new_password]}
                ELSE passwordChanges
        /\ sessionsBeforePasswordChange' =
                IF changed
                THEN sessionsBeforePasswordChange \cup SessionsOf(r.user.id)
                ELSE sessionsBeforePasswordChange
        /\ last' = [Observed("change_password", r,
                      IF ~r.ok THEN r.response
                      ELSE IF result.status = 200
                      THEN Response(200, result.detail,
                                    "Set-Cookie: access_token=; Max-Age=0")
                      ELSE Response(result.status, result.detail, ""))
                    EXCEPT !.a = current_password, !.b = new_password]
        /\ UNCHANGED <<elsewhere, nextUserId, blacklist, now, issued, loggedOut,
                       sessionsBeforeUsernameChange>>

\* PATCH /auth/me/username
ChangeUsername(token, new_username) ==
    LET r == get_current_user(token, users, now)
        result == change_username(users, r.user.id, new_username)
        changed == r.ok /\ result.status = 200
    IN  /\ rejectedTerminal' = NoteRejection(token, r)
        /\ justIssued' = 0
        /\ users' = IF r.ok THEN result.users ELSE users
        /\ sessionsBeforeUsernameChange' =
                IF changed
                THEN sessionsBeforeUsernameChange \cup SessionsOf(r.user.id)
                ELSE sessionsBeforeUsernameChange
        /\ last' = [Observed("change_username", r,
                      IF ~r.ok THEN r.response
                      ELSE Response(result.status, result.detail, ""))
                    EXCEPT !.a = new_username,
                           !.user = IF changed
                                    THEN get_user_by_id(result.users, r.user.id)
                                    ELSE r.user]
        /\ UNCHANGED <<elsewhere, nextUserId, blacklist, now, issued, loggedOut,
                       passwordChanges, sessionsBeforePasswordChange>>

\* The usernames a request can name: the two of Init and a free one
AccountUsernames == Usernames \cup {"carol"}
\* One step takes the clock past the expiry of a token issued at 0
AccountClockSteps == {1860}

\* The passwords a request can carry: the two of Init and a third
AccountPasswords == Passwords \cup {"pwC"}

\* Logins and password changes of the default user, and the passing of time
PasswordNext ==
    \/ \E p \in AccountPasswords : Login(DEFAULT_USERNAME, p)
    \/ \E tok \in Cookies : GetCurrentUser(tok)
    \/ \E tok \in Cookies, cur \in Passwords, new \in AccountPasswords :
            ChangePassword(tok, cur, new)
    \/ \E d \in AccountClockSteps : AdvanceClock(d)

SpecPassword == Init /\ [][PasswordNext]_vars

\* Logins, username changes and the passing of time
UsernameNext ==
    \/ \E u \in AccountUsernames, p \in Passwords : Login(u, p)
    \/ \E tok \in Cookies : GetCurrentUser(tok)
    \/ \E tok \in Cookies, new \in AccountUsernames : ChangeUsername(tok, new)
    \/ \E d \in AccountClockSteps : AdvanceClock(d)

SpecUsername == Init /\ [][UsernameNext]_vars

-----------------------------------------------------------------------------
(* Registration *)

MaxRegistrations == 2

\* The usernames and passwords register requests carry
RegisterUsernames == {"bob", "carol"}
RegisterPasswords == {"pwC"}

\* register_user's commit on a table without the unique constraint
register_user_no_constraint(db_users, new_id, username, password) ==
    ServiceResult(201, "", db_users \cup
        {[id |-> new_id, username |-> username,
          hashed_password |-> get_password_hash(password)]})

\* auth_service.register_user at db.commit(): the INSERT takes the next id of
\* the sequence; the unique constraint on users.username raises IntegrityError
\* and the transaction is rolled back
register_user(db_users, new_id, username, password) ==
    IF \E u \in db_users : u.username = username
    THEN ServiceResult(409, "Username already exists", db_users)
    ELSE ServiceResult(201, "", db_users \cup
            {[id |-> new_id, username |-> username,
              hashed_password |-> get_password_hash(password)]})

\* POST /auth/register up to db.add(new_user): require_auth, the hashing and
\* the pending INSERT
BeginRegister(token, username, password) ==
    LET r == get_current_user(token, users, now) IN
    /\ r.ok => Len(registrations) < MaxRegistrations
    /\ rejectedTerminal' = NoteRejection(token, r)
    /\ justIssued' = 0
    /\ registrations' =
            IF r.ok
            THEN Append(registrations,
                    [username |-> username, password |-> password,
                     free |-> get_user_by_username(users, username) = NoUser,
                     status |-> 0, id |-> 0])
            ELSE registrations
    /\ last' = [Observed("register_begin", r,
                         IF r.ok THEN Response(0, "", "") ELSE r.response)
                EXCEPT !.a = username, !.b = password]
    /\ UNCHANGED <<users, nextUserId, blacklist, now, issued, loggedOut, hist,
                   initialLedger, requests, item, keyvars>>

\* POST /auth/register from db.commit() to the response
CommitRegister(i) ==
    LET reg == registrations[i]
        result == register_user(users, nextUserId, reg.username, reg.password)
    IN  /\ reg.status = 0
        /\ users' = result.users
        /\ nextUserId' = nextUserId + 1
        /\ registrations' = [registrations EXCEPT
                                ![i].status = result.status,
                                ![i].id = IF result.status = 201 THEN nextUserId ELSE 0]
        /\ justIssued' = 0
        /\ last' = [Observed("register",
                             [ok |-> TRUE, cause |-> "ok",
                              user |-> get_user_by_username(result.users, reg.username)],
                             Response(result.status, result.detail, ""))
                    EXCEPT !.a = reg.username, !.b = reg.password,
                           !.flag = reg.free]
        /\ UNCHANGED <<blacklist, now, issued, loggedOut, rejectedTerminal, hist,
                       initialLedger, requests, item, keyvars>>

\* The default user logs in; register requests run concurrently
RegisterNext ==
    \/ \E p \in Passwords : Login(DEFAULT_USERNAME, p)
    \/ \E tok \in Cookies, u \in RegisterUsernames, p \in RegisterPasswords :
            BeginRegister(tok, u, p)
    \/ \E i \in DOMAIN registrations : CommitRegister(i)

SpecRegister == Init /\ [][RegisterNext]_vars

-----------------------------------------------------------------------------
(* Deleting users; accounts under rename, registration and deletion *)

MaxRequests == 2

Request(op, caller, target, a, b) ==
    [op |-> op, caller |-> caller, target |-> target, a |-> a, b |-> b,
     status |-> 0, matched |-> FALSE, at |-> now, arg |-> 0, read |-> 0]

\* db.delete(user); db.commit(): the row goes, or the DELETE matches no row
\* (another request removed it) and the commit raises
db_delete(db_users, user_id) ==
    IF get_user_by_id(db_users, user_id) = NoUser
    THEN ServiceResult(500, "Internal Server Error", db_users)
    ELSE ServiceResult(200, "deleted successfully",
                       db_users \ {get_user_by_id(db_users, user_id)})

\* delete_user without the test that the caller is not the target
delete_user_self_allowed(db_users, current_user_id, user_id) ==
    IF get_user_by_id(db_users, user_id) = NoUser
    THEN ServiceResult(404, "User not found", db_users)
    ELSE db_delete(db_users, user_id)

\* routers.auth.delete_user, run without interruption
delete_user(db_users, current_user_id, user_id) ==
    IF current_user_id = user_id
    THEN ServiceResult(403, "Cannot delete your own account", db_users)
    ELSE IF get_user_by_id(db_users, user_id) = NoUser
    THEN ServiceResult(404, "User not found", db_users)
    ELSE db_delete(db_users, user_id)

\* DELETE /auth/users/{user_id} up to db.delete: require_auth, the test for
\* the caller's own id and the query for the row
BeginDeleteUser(token, user_id) ==
    LET r == get_current_user(token, users, now)
        result == delete_user(users, r.user.id, user_id)
        proceeds == r.ok /\ result.status \in {200, 500}
    IN  /\ proceeds => Len(requests) < MaxRequests
        /\ rejectedTerminal' = NoteRejection(token, r)
        /\ justIssued' = 0
        /\ requests' = IF proceeds
                       THEN Append(requests,
                                Request("delete_user", r.user.id, user_id, "", ""))
                       ELSE requests
        /\ last' = [Observed(IF proceeds THEN "delete_user_begin" ELSE "delete_user",
                             r,
                             IF ~r.ok THEN r.response
                             ELSE IF proceeds THEN Response(0, "", "")
                             ELSE Response(result.status, result.detail, ""))
                    EXCEPT !.n = user_id]
        /\ UNCHANGED <<users, nextUserId, blacklist, now, issued, loggedOut, hist,
                       registrations, initialLedger, item, keyvars>>

\* DELETE /auth/users/{user_id} from db.delete(user) to the response
CommitDeleteUser(i) ==
    LET req == requests[i]
        result == db_delete(users, req.target)
    IN  /\ req.op = "delete_user"
        /\ req.status = 0
        /\ users' = result.users
        /\ requests' = [requests EXCEPT ![i].status = result.status]
        /\ justIssued' = 0
        /\ last' = [Observed("delete_user",
                             [ok |-> TRUE, cause |-> "ok",
                              user |-> get_user_by_id(users, req.caller)],
                             Response(result.status, result.detail, ""))
                    EXCEPT !.n = req.target]
        /\ UNCHANGED <<nextUserId, blacklist, now, issued, loggedOut,
                       rejectedTerminal, hist, registrations, initialLedger,
                       item, keyvars>>

\* DELETE /auth/users/{user_id}, run without interruption
DeleteUser(token, user_id) ==
    LET r == get_current_user(token, users, now)
        result == delete_user(users, r.user.id, user_id)
    IN  /\ rejectedTerminal' = NoteRejection(token, r)
        /\ justIssued' = 0
        /\ users' = IF r.ok THEN result.users ELSE users
        /\ last' = [Observed("delete_user", r,
                             IF ~r.ok THEN r.response
                             ELSE Response(result.status, result.detail, ""))
                    EXCEPT !.n = user_id]
        /\ UNCHANGED <<elsewhere, nextUserId, blacklist, now, issued, loggedOut,
                       hist>>

UserIds == 1..3

\* Logins and authenticated requests while users are deleted, one request
\* after the other
RemovalNext ==
    \/ \E u \in Usernames, p \in Passwords : Login(u, p)
    \/ \E tok \in Cookies : GetCurrentUser(tok)
    \/ \E tok \in Cookies, id \in UserIds : DeleteUser(tok, id)

SpecRemoval == Init /\ [][RemovalNext]_vars

\* Logins and authenticated requests while users delete users
DeleteNext ==
    \/ \E u \in Usernames, p \in Passwords : Login(u, p)
    \/ \E tok \in Cookies : GetCurrentUser(tok)
    \/ \E tok \in Cookies, id \in UserIds : BeginDeleteUser(tok, id)
    \/ \E i \in DOMAIN requests : CommitDeleteUser(i)

SpecDelete == Init /\ [][DeleteNext]_vars

RenameUsernames == {"carol"}
ReusedUsernames == {"bob"}

\* Logins and authenticated requests while an account is renamed and its
\* former username registered again
IdentityNext ==
    \/ \E u \in Usernames, p \in Passwords : Login(u, p)
    \/ \E tok \in Cookies : GetCurrentUser(tok)
    \/ \E tok \in Cookies, new \in RenameUsernames : ChangeUsername(tok, new)
    \/ \E tok \in Cookies, u \in ReusedUsernames, p \in RegisterPasswords :
            BeginRegister(tok, u, p)
    \/ \E i \in DOMAIN registrations : CommitRegister(i)

SpecIdentity == Init /\ [][IdentityNext]_vars

-----------------------------------------------------------------------------
(* change_password requests running at the same time *)

\* user.hashed_password = new_hashed_password; db.commit(): the UPDATE of the
\* row by primary key, whatever hash it holds by then
write_password(db_users, user_id, new_password) ==
    LET user == get_user_by_id(db_users, user_id) IN
    IF user = NoUser THEN ServiceResult(500, "Error changing password", db_users)
    ELSE ServiceResult(200, "Password changed successfully",
            (db_users \ {user}) \cup
                {[user EXCEPT !.hashed_password = get_password_hash(new_password)]})

\* PATCH /auth/me/password up to the new hash: require_auth, the query for
\* the row and the two verify_password tests against the hash just read
BeginChangePassword(token, current_password, new_password) ==
    LET r == get_current_user(token, users, now)
        result == change_password(users, r.user.id, current_password, new_password)
        proceeds == r.ok /\ result.status = 200
    IN  /\ proceeds => Len(requests) < MaxRequests
        /\ rejectedTerminal' = NoteRejection(token, r)
        /\ justIssued' = 0
        /\ requests' = IF proceeds
                       THEN Append(requests,
                                Request("change_password", r.user.id, r.user.id,
                                        current_password, new_password))
                       ELSE requests
        /\ last' = [Observed(IF proceeds THEN "change_password_begin"
                             ELSE "change_password",
                             r,
                             IF ~r.ok THEN r.response
                             ELSE IF proceeds THEN Response(0, "", "")
                             ELSE Response(result.status, result.detail, ""))
                    EXCEPT !.a = current_password, !.b = new_password]
        /\ UNCHANGED <<users, nextUserId, blacklist, now, issued, loggedOut, hist,
                       registrations, initialLedger, item, keyvars>>

\* PATCH /auth/me/password from the assignment of the new hash to the response
CommitChangePassword(i) ==
    LET req == requests[i]
        stored == get_user_by_id(users, req.target).hashed_password
        result == write_password(users, req.target, req.b)
    IN  /\ req.op = "change_password"
        /\ req.status = 0
        /\ users' = result.users
        /\ requests' = [requests EXCEPT
                           ![i].status = result.status,
                           ![i].matched = verify_password(req.a, stored)]
        /\ justIssued' = 0
        /\ last' = [Observed("change_password",
                             [ok |-> TRUE, cause |-> "ok",
                              user |-> get_user_by_id(users, req.caller)],
                             IF result.status = 200
                             THEN Response(200, result.detail,
                                           "Set-Cookie: access_token=; Max-Age=0")
                             ELSE Response(result.status, result.detail, ""))
                    EXCEPT !.a = req.a, !.b = req.b,
                           !.flag = verify_password(req.a, stored)]
        /\ UNCHANGED <<nextUserId, blacklist, now, issued, loggedOut,
                       rejectedTerminal, hist, registrations, initialLedger,
                       item, keyvars>>

PasswordRaceNext ==
    \/ \E p \in AccountPasswords : Login(DEFAULT_USERNAME, p)
    \/ \E tok \in Cookies, cur \in Passwords, new \in AccountPasswords :
            BeginChangePassword(tok, cur, new)
    \/ \E i \in DOMAIN requests : CommitChangePassword(i)

SpecPasswordRace == Init /\ [][PasswordRaceNext]_vars

-----------------------------------------------------------------------------
(* The revocation ledger's maintenance operations, over any stored ledger *)

LedgerMaxClock == 180
LedgerClockSteps == {60}

\* Rows the jwt_blacklist table can hold when the application starts
LedgerRows ==
    { [jti |-> "j0", username |-> "admin", expires_at |-> 0],
      [jti |-> "j1", username |-> "admin", expires_at |-> 60],
      [jti |-> "j2", username |-> "bob", expires_at |-> 120],
      [jti |-> "j3", username |-> "bob", expires_at |-> 4000] }

LedgerAdvanceClock(d) ==
    /\ now + d <= LedgerMaxClock
    /\ AdvanceClock(d)

LedgerNext ==
    \/ \E p \in Passwords : Login(DEFAULT_USERNAME, p)
    \/ \E tok \in Cookies : CleanupBlacklist(tok)
    \/ \E tok \in Cookies : BlacklistStats(tok)
    \/ \E d \in LedgerClockSteps : LedgerAdvanceClock(d)

LedgerInit == \E rows \in SUBSET LedgerRows : InitWith(rows) /\ KeysImported

SpecLedger == LedgerInit /\ [][LedgerNext]_vars

-----------------------------------------------------------------------------
(* get_blacklist_stats while the ledger changes between its two queries *)

\* NOW() in a statement of the other variant: the time of the statement
sql_now_statement_time(transaction_start, statement_time) == statement_time

\* NOW() in a statement: PostgreSQL gives the start time of the transaction,
\* which for a request is its first query
sql_now(transaction_start, statement_time) == transaction_start

\* The dict get_blacklist_stats builds from the results of its two queries
blacklist_counts(total, expired) ==
    [total |-> total, expired |-> expired, active |-> total - expired]

\* GET /admin/blacklist/stats up to the first query: require_auth, then
\* SELECT COUNT(*) FROM jwt_blacklist
BeginBlacklistStats(token) ==
    LET r == get_current_user(token, users, now) IN
    /\ r.ok => Len(requests) < MaxRequests
    /\ rejectedTerminal' = NoteRejection(token, r)
    /\ justIssued' = 0
    /\ requests' = IF r.ok
                   THEN Append(requests,
                            Request("get_blacklist_stats", r.user.id,
                                    Cardinality(blacklist), "", ""))
                   ELSE requests
    /\ last' = Observed("get_blacklist_stats_begin", r,
                        IF r.ok THEN Response(0, "", "") ELSE r.response)
    /\ UNCHANGED <<users, nextUserId, blacklist, now, issued, loggedOut, hist,
                   registrations, initialLedger, item, keyvars>>

\* GET /admin/blacklist/stats from the second query, SELECT COUNT(*) ... WHERE
\* expires_at < NOW(), to the response
EndBlacklistStats(i) ==
    LET req == requests[i]
        t == sql_now(req.at, now)
        expired == get_blacklist_stats(blacklist, t).expired
    IN  /\ req.op = "get_blacklist_stats"
        /\ req.status = 0
        /\ requests' = [j \in 1..(Len(requests) - 1) |->
                            IF j < i THEN requests[j] ELSE requests[j + 1]]
        /\ justIssued' = 0
        /\ last' = [Observed("get_blacklist_stats",
                             [ok |-> TRUE, cause |-> "ok",
                              user |-> get_user_by_id(users, req.caller)],
                             Response(200, "blacklist_stats", ""))
                    EXCEPT !.stats = blacklist_counts(req.target, expired),
                           !.n = Cardinality(blacklist),
                           !.exp = req.at]
        /\ UNCHANGED <<users, nextUserId, blacklist, now, issued, loggedOut,
                       rejectedTerminal, hist, registrations, initialLedger,
                       item, keyvars>>

\* A logout that revokes: blacklist_token with the id, subject and expiry of
\* a token that jwt.decode found unexpired
BlacklistToken(row) ==
    /\ row.expires_at > now
    /\ blacklist' = blacklist_token(blacklist, row.jti, row.username, row.expires_at)
    /\ blacklist' # blacklist
    /\ justIssued' = 0
    /\ last' = [Observed("blacklist_token",
                         [ok |-> TRUE, cause |-> "ok", user |-> NoUser],
                         Response(200, "Logged out successfully", ""))
                EXCEPT !.n = row.expires_at]
    /\ UNCHANGED <<elsewhere, users, nextUserId, now, issued, loggedOut,
                   rejectedTerminal, hist>>

StatsMaxClock == 120
StatsClockSteps == {120}

\* The ledger entries of this specification: one that expires while the
\* clock advances and one that does not
StatsRows == {r \in LedgerRows : r.expires_at \in {60, 4000}}

StatsAdvanceClock(d) ==
    /\ now + d <= StatsMaxClock
    /\ AdvanceClock(d)

StatsNext ==
    \/ \E p \in Passwords : Login(DEFAULT_USERNAME, p)
    \/ \E tok \in Cookies : BeginBlacklistStats(tok)
    \/ \E i \in DOMAIN requests : EndBlacklistStats(i)
    \/ \E tok \in Cookies : CleanupBlacklist(tok)
    \/ \E row \in StatsRows : BlacklistToken(row)
    \/ \E d \in StatsClockSteps : StatsAdvanceClock(d)

StatsInit == \E rows \in SUBSET StatsRows : InitWith(rows) /\ KeysImported

SpecStats == StatsInit /\ [][StatsNext]_vars

-----------------------------------------------------------------------------
(* Application startup *)

\* The users table a starting process can find: empty, one registered user
\* left, or the users of a deployment in use
StartupUsers ==
    {{}, {u \in RegisteredUsers : u.username = "bob"}, RegisteredUsers}

\* lifespan up to the yield: initialize_default_user, then the cleanup of the
\* ledger; either may raise, which is logged, and startup goes on
Lifespan(password, user_fails, cleanup_fails) ==
    /\ users' = initialize_default_user(users, nextUserId, password, user_fails)
    /\ nextUserId' = IF users' = users THEN nextUserId ELSE nextUserId + 1
    /\ blacklist' = IF cleanup_fails THEN blacklist ELSE lifespan(blacklist, now)
    /\ justIssued' = 0
    /\ last' = [Observed("lifespan", [ok |-> TRUE, cause |-> "ok", user |-> NoUser],
                         Response(0, "", ""))
                EXCEPT !.b = password, !.flag = user_fails, !.again = cleanup_fails]
    /\ UNCHANGED <<elsewhere, now, issued, loggedOut, rejectedTerminal, hist>>

StartupNext ==
    \/ \E p \in Passwords, user_fails \in BOOLEAN, cleanup_fails \in BOOLEAN :
            Lifespan(p, user_fails, cleanup_fails)
    \/ \E d \in LedgerClockSteps : LedgerAdvanceClock(d)

StartupInit ==
    \E db_users \in StartupUsers, rows \in SUBSET LedgerRows :
        /\ InitState(db_users, 3, rows, rows)
        /\ KeysImported

SpecStartup == StartupInit /\ [][StartupNext]_vars

-----------------------------------------------------------------------------
(* Items: update_item and patch_stock under If-Unmodified-Since *)

ItemMaxClock == 1
ItemClockSteps == {1}
\* The largest quantity a modelled request asks to store
MaxQuantity == 2
\* The clients whose PATCH /items/{id}/stock requests can be in flight together
StockClients == {1, 2}

\* An If-Unmodified-Since header: absent (or empty), not an ISO timestamp, an
\* ISO timestamp without UTC offset, or one with an offset
NoHeaderValue == [kind |-> "none", t |-> 0]
HeaderValues ==
    {NoHeaderValue, [kind |-> "invalid", t |-> 0], [kind |-> "naive", t |-> 0]}
        \cup {[kind |-> "aware", t |-> t] : t \in 0..ItemMaxClock}

\* A StockPatch body: delta and new_qty, each a Decimal or None
NoDecimal == [none |-> TRUE, d |-> 0]
Dec(d) == [none |-> FALSE, d |-> d]
StockPatches ==
    { [delta |-> NoDecimal, new_qty |-> NoDecimal],
      [delta |-> Dec(1), new_qty |-> Dec(2)],
      [delta |-> Dec(-2), new_qty |-> NoDecimal],
      [delta |-> Dec(1), new_qty |-> NoDecimal],
      [delta |-> NoDecimal, new_qty |-> Dec(-1)],
      [delta |-> NoDecimal, new_qty |-> Dec(2)] }

\* An ItemPatch body as update_item uses it: the name, a string or None
NoName == [none |-> TRUE, s |-> ""]
Name(s) == [none |-> FALSE, s |-> s]
ItemNames == {NoName, Name(""), Name(" "), Name("oat milk")}

\* not patch.name.strip()
blank(s) == s \in {"", " "}

\* The outcome of a service call: the response, the row it leaves, and whether
\* it got as far as session.commit()
ItemResult(status, detail, row, committed) ==
    [status |-> status, detail |-> detail, item |-> row, committed |-> committed]

\* The response model ItemOut: the fields it requires, and the keywords the
\* services construct it with.  A required field that is not given makes the
\* constructor raise ValidationError
ItemOutRequired ==
    {"item_id", "item_name", "item_type", "quantity", "created_at", "updated_at"}
ItemOutGiven ==
    {"id", "name", "item_type", "category_id", "mealie_food_id", "notes",
     "quantity", "unit_id", "created_at", "updated_at"}
item_out_valid == ItemOutRequired \subseteq ItemOutGiven

\* What patch_stock answers once the write is committed: the ItemOut, or the
\* 500 of the outer handler when its construction raises
stock_response(row) ==
    IF item_out_valid THEN ItemResult(200, "", row, TRUE)
    ELSE ItemResult(500, "Error updating stock", row, TRUE)

\* The concurrency control block of both services: 0 to go on, or the status
\* raised.  datetime.fromisoformat raises ValueError on a malformed value
\* (400); comparing the timezone-aware updated_at with a naive datetime
\* raises TypeError, which the outer handler turns into 500
if_unmodified_since_check(row, header) ==
    CASE header.kind = "none" -> 0
      [] header.kind = "invalid" -> 400
      [] header.kind = "naive" -> 500
      [] OTHER -> IF row.updated_at > header.t THEN 412 ELSE 0

\* patch_stock storing whatever quantity results
patch_stock_unchecked(row, header, patch, t) ==
    LET precondition == if_unmodified_since_check(row, header)
        new_quantity == IF ~patch.delta.none THEN row.quantity + patch.delta.d
                        ELSE patch.new_qty.d
    IN  IF precondition # 0 THEN ItemResult(precondition, "precondition", row, FALSE)
        ELSE IF ~patch.delta.none /\ ~patch.new_qty.none
        THEN ItemResult(422, "Provide only one of delta or new_qty", row, FALSE)
        ELSE IF patch.delta.none /\ patch.new_qty.none
        THEN ItemResult(422, "Must provide either delta or new_qty", row, FALSE)
        ELSE stock_response([row EXCEPT !.quantity = new_quantity, !.updated_at = t])

\* items_service.patch_stock run without interruption at time t: the status
\* and the row it leaves
patch_stock(row, header, patch, t) ==
    LET precondition == if_unmodified_since_check(row, header)
        new_quantity == IF ~patch.delta.none THEN row.quantity + patch.delta.d
                        ELSE patch.new_qty.d
    IN  IF precondition # 0 THEN ItemResult(precondition, "precondition", row, FALSE)
        ELSE IF ~patch.delta.none /\ ~patch.new_qty.none
        THEN ItemResult(422, "Provide only one of delta or new_qty", row, FALSE)
        ELSE IF patch.delta.none /\ patch.new_qty.none
        THEN ItemResult(422, "Must provide either delta or new_qty", row, FALSE)
        ELSE IF new_quantity < 0
        THEN ItemResult(422, "Quantity must be non-negative", row, FALSE)
        ELSE stock_response([row EXCEPT !.quantity = new_quantity, !.updated_at = t])

\* items_service.update_item: after the concurrency control and the test of
\* the name it reads patch.category_id, a field ItemPatch does not have; the
\* AttributeError is caught, the session rolled back and 500 raised
update_item(row, header, name, t) ==
    LET precondition == if_unmodified_since_check(row, header) IN
    IF precondition # 0 THEN ItemResult(precondition, "precondition", row, FALSE)
    ELSE IF ~name.none /\ blank(name.s)
    THEN ItemResult(422, "Name cannot be empty", row, FALSE)
    ELSE ItemResult(500, "Error updating item", row, FALSE)

PatchKind(patch) ==
    CASE ~patch.delta.none /\ ~patch.new_qty.none -> "both"
      [] patch.delta.none /\ patch.new_qty.none -> "neither"
      [] ~patch.delta.none -> "delta"
      [] OTHER -> "new_qty"

ServiceCall(op, status, detail) ==
    Observed(op, [ok |-> status = 200, cause |-> "", user |-> NoUser],
             Response(status, detail, ""))

\* patch_stock up to the computation of new_quantity: the two session.get
\* reads, the concurrency control and the validation
BeginPatchStock(header, patch) ==
    LET result == patch_stock(item, header, patch, now)
        proceeds == result.committed
        arg == IF ~patch.delta.none THEN patch.delta.d ELSE patch.new_qty.d
    IN  /\ proceeds => Len(requests) < Cardinality(StockClients)
        /\ proceeds => result.item.quantity <= MaxQuantity
        /\ requests' =
                IF proceeds
                THEN Append(requests,
                        [Request("patch_stock",
                                 IF header.kind = "aware" THEN header.t ELSE -1,
                                 result.item.quantity, "", "")
                         EXCEPT !.at = 0])
                ELSE requests
        /\ justIssued' = 0
        /\ last' = [ServiceCall(IF proceeds THEN "patch_stock_begin" ELSE "patch_stock",
                                IF proceeds THEN 0 ELSE result.status, result.detail)
                    EXCEPT !.a = PatchKind(patch),
                           !.n = IF ~patch.delta.none THEN item.quantity + arg ELSE arg]
        /\ UNCHANGED <<users, nextUserId, blacklist, now, issued, loggedOut,
                       rejectedTerminal, hist, registrations, initialLedger, item,
                       keyvars>>

\* patch_stock from the assignment of stock.quantity to the commit
CommitPatchStock(i) ==
    LET req == requests[i]
        result == stock_response([item EXCEPT !.quantity = req.target,
                                              !.updated_at = now])
    IN
    /\ req.op = "patch_stock"
    /\ req.status = 0
    /\ item' = result.item
    /\ requests' = [j \in 1..(Len(requests) - 1) |->
                        IF j < i THEN requests[j] ELSE requests[j + 1]]
    /\ justIssued' = 0
    /\ last' = [ServiceCall("patch_stock", result.status, result.detail)
                EXCEPT !.cause = "committed", !.n = req.target,
                       !.flag = ~(req.caller >= 0 /\ item.updated_at > req.caller)]
    /\ UNCHANGED <<users, nextUserId, blacklist, now, issued, loggedOut,
                   rejectedTerminal, hist, registrations, initialLedger, keyvars>>

\* update_item, which never gets as far as a commit
UpdateItem(header, name) ==
    LET result == update_item(item, header, name, now) IN
    /\ item' = result.item
    /\ justIssued' = 0
    /\ last' = ServiceCall("update_item", result.status, result.detail)
    /\ UNCHANGED <<users, nextUserId, blacklist, now, issued, loggedOut,
                   rejectedTerminal, hist, registrations, initialLedger, requests,
                   keyvars>>

ItemAdvanceClock(d) ==
    /\ now + d <= ItemMaxClock
    /\ AdvanceClock(d)

ItemsNext ==
    \/ \E header \in HeaderValues, patch \in StockPatches :
            BeginPatchStock(header, patch)
    \/ \E i \in DOMAIN requests : CommitPatchStock(i)
    \/ \E header \in HeaderValues, name \in ItemNames : UpdateItem(header, name)
    \/ \E d \in ItemClockSteps : ItemAdvanceClock(d)

SpecItems == Init /\ [][ItemsNext]_vars

-----------------------------------------------------------------------------
(* The key manager: construction of the HybridKeyPair singleton *)

MaxConstructions == 3

KeyOperations ==
    {"get_rsa_private_key", "get_rsa_public_key", "get_dilithium_public_key",
     "dilithium_private_key", "dilithium_sign", "dilithium_verify"}

\* What an operation of the interface hands back from a HybridKeyPair object:
\* the kind of value, the generation of the key material behind it (0 for
\* None) and whether the call raised.  dilithium_sign on an unset signer
\* raises AttributeError; dilithium_verify catches it and returns False.
key_operation(obj, op) ==
    CASE op = "get_rsa_private_key" ->
            [kind |-> "private", material |-> obj.rsa, raised |-> FALSE]
      [] op = "get_rsa_public_key" ->
            [kind |-> "public", material |-> obj.rsa, raised |-> FALSE]
      [] op = "get_dilithium_public_key" ->
            [kind |-> "public", material |-> obj.dilithium, raised |-> FALSE]
      [] op = "dilithium_private_key" ->
            [kind |-> "private", material |-> obj.dilithium, raised |-> FALSE]
      [] op = "dilithium_sign" ->
            [kind |-> "signature", material |-> obj.dilithium,
             raised |-> obj.dilithium = 0]
      [] OTHER ->
            [kind |-> "bool", material |-> obj.dilithium, raised |-> FALSE]

\* The state of the rest of the application, which the key manager leaves alone
application ==
    <<users, nextUserId, blacklist, now, issued, justIssued, loggedOut,
      rejectedTerminal, hist, registrations, initialLedger, requests, item>>

Generating == {"call_generate", "gen_rsa", "gen_dilithium"}

KeyRequest(op, ok, cause) ==
    Observed(op, [ok |-> ok, cause |-> cause, user |-> NoUser], Response(0, "", ""))

\* A thread calls HybridKeyPair()
Construct(t) ==
    /\ threads[t].pc = "idle"
    /\ constructions < MaxConstructions
    /\ constructions' = constructions + 1
    /\ threads' = [threads EXCEPT ![t].pc = "test"]
    /\ UNCHANGED <<clsInstance, objects, generations, last, application>>

\* __new__, line 46: if cls._instance is None
TestInstance(t) ==
    /\ threads[t].pc = "test"
    /\ threads' = [threads EXCEPT
                      ![t].pc = IF clsInstance = 0 THEN "alloc" ELSE "return"]
    /\ UNCHANGED <<clsInstance, objects, generations, constructions, last, application>>

\* __new__, line 47: cls._instance = super().__new__(cls)
Allocate(t) ==
    /\ threads[t].pc = "alloc"
    /\ objects' = Append(objects, NewKeyObject)
    /\ clsInstance' = Len(objects) + 1
    /\ threads' = [threads EXCEPT ![t].pc = "call_generate"]
    /\ UNCHANGED <<generations, constructions, last, application>>

\* __new__, line 48: cls._instance._generate_keys() is entered
CallGenerate(t) ==
    /\ threads[t].pc = "call_generate"
    /\ generations' = generations + 1
    /\ threads' = [threads EXCEPT ![t].pc = "gen_rsa", ![t].self = clsInstance,
                                  ![t].gen = generations + 1]
    /\ UNCHANGED <<clsInstance, objects, constructions, last, application>>

\* _generate_rsa_keys: sets the RSA pair, or raises out of HybridKeyPair()
GenerateRsa(t, succeeds) ==
    /\ threads[t].pc = "gen_rsa"
    /\ objects' = IF succeeds
                  THEN [objects EXCEPT ![threads[t].self].rsa = threads[t].gen]
                  ELSE [objects EXCEPT ![threads[t].self].failed = TRUE]
    /\ threads' = [threads EXCEPT
                      ![t].pc = IF succeeds THEN "gen_dilithium" ELSE "idle"]
    /\ last' = IF succeeds THEN last
               ELSE KeyRequest("HybridKeyPair", FALSE, "generation_failed")
    /\ UNCHANGED <<clsInstance, generations, constructions, application>>

\* _generate_dilithium_keys: sets signer and Dilithium3 pair, or raises
GenerateDilithium(t, succeeds) ==
    /\ threads[t].pc = "gen_dilithium"
    /\ objects' = IF succeeds
                  THEN [objects EXCEPT ![threads[t].self].dilithium = threads[t].gen]
                  ELSE [objects EXCEPT ![threads[t].self].failed = TRUE]
    /\ threads' = [threads EXCEPT
                      ![t].pc = IF succeeds THEN "return" ELSE "idle"]
    /\ last' = IF succeeds THEN last
               ELSE KeyRequest("HybridKeyPair", FALSE, "generation_failed")
    /\ UNCHANGED <<clsInstance, generations, constructions, application>>

\* __new__, line 49: return cls._instance
ReturnInstance(t) ==
    /\ threads[t].pc = "return"
    /\ threads' = [threads EXCEPT ![t].pc = "idle", ![t].got = clsInstance]
    /\ last' = [KeyRequest("HybridKeyPair", TRUE, "ok") EXCEPT
                  !.n = clsInstance,
                  !.obj = objects[clsInstance],
                  !.flag = \E u \in Threads \ {t} : threads[u].pc \in Generating]
    /\ UNCHANGED <<clsInstance, objects, generations, constructions, application>>

\* A caller uses the instance it obtained
KeyOperation(t, op) ==
    LET obj == objects[threads[t].got]
        result == key_operation(obj, op)
    IN  /\ threads[t].pc = "idle"
        /\ threads[t].got # 0
        /\ last' = [KeyRequest(op, ~result.raised,
                               IF result.raised THEN "AttributeError" ELSE "ok")
                    EXCEPT !.a = result.kind, !.n = threads[t].got, !.obj = obj,
                           !.flag = \E u \in Threads \ {t} :
                                        threads[u].pc \in Generating]
        /\ UNCHANGED <<clsInstance, objects, threads, generations, constructions, application>>

KeysNext ==
    \/ \E t \in Threads : Construct(t)
    \/ \E t \in Threads : TestInstance(t)
    \/ \E t \in Threads : Allocate(t)
    \/ \E t \in Threads : CallGenerate(t)
    \/ \E t \in Threads, succeeds \in BOOLEAN : GenerateRsa(t, succeeds)
    \/ \E t \in Threads, succeeds \in BOOLEAN : GenerateDilithium(t, succeeds)
    \/ \E t \in Threads : ReturnInstance(t)
    \/ \E t \in Threads, op \in KeyOperations : KeyOperation(t, op)

\* Before app.crypto.keys is imported: no instance yet
KeysInit ==
    /\ InitWith({})
    /\ clsInstance = 0
    /\ objects = <<>>
    /\ threads = [t \in Threads |-> [pc |-> "idle", self |-> 0, gen |-> 0, got |-> 0]]
    /\ generations = 0
    /\ constructions = 0

SpecKeys == KeysInit /\ [][KeysNext]_vars

-----------------------------------------------------------------------------
(* Properties *)

\* C1: once logout with a token has completed, every later get_current_user
\* call presenting that token is rejected.
C1_RevokedTokenRejected ==
    (last.op = "get_current_user" /\ last.afterLogout) => ~last.ok

\* C2: an issued token that a get_current_user call has rejected as expired
\* or revoked is accepted in no later state, whatever logins, logouts,
\* cleanups and clock advances happen in between.
C2_TerminalRejection ==
    \A i \in rejectedTerminal :
        ~get_current_user(issued[i].token, users, now).ok

\* A call presenting an issued token that an earlier call had already rejected
\* as expired, after a second login
C2_Witness ==
    /\ last.op = "get_current_user"
    /\ last.again
    /\ ~last.ok
    /\ Len(issued) = 2

\* C3: the token login_user returned, presented to get_current_user as the
\* very next operation, is accepted and resolves to the record of the user
\* who logged in.
C3_FreshTokenAccepted ==
    (last.op = "get_current_user" /\ last.fresh) =>
        /\ last.ok
        /\ last.user.id = issued[Len(issued)].user.id
        /\ last.user.username = issued[Len(issued)].user.username
        /\ last.user \in users

C3_Witness ==
    /\ last.op = "get_current_user"
    /\ last.fresh
    /\ last.user.username = "bob"
    /\ issued[Len(issued)].via = "login"

\* C4: get_current_user accepts a token only at times now < exp.
C4_RejectedFromExpiry ==
    (last.op = "get_current_user" /\ last.ok) => last.at < last.exp

\* C5: get_current_user accepts no token without the pqc block, none whose
\* RS256 signature was altered and none whose Dilithium3 signature was altered.
C5_BothSignaturesRequired ==
    \A tok \in Presentable :
        get_current_user(tok, users, now).ok =>
            /\ tok.header.pqc.present
            /\ ~tok.signature.tamper
            /\ ~tok.header.pqc.sig.tamper

\* A token with a valid RS256 signature and no pqc block was presented and
\* rejected
C5_Witness ==
    /\ last.op = "get_current_user"
    /\ last.cause = "pqc_missing"
    /\ ~last.ok

\* C6: every rejection by get_current_user carries the same outward response.
C6_UniformRejection ==
    (last.op = "get_current_user" /\ ~last.ok) =>
        last.response = credentials_exception

C8_RebuiltMessageIsSigned ==
    \A i \in DOMAIN issued :
        LET tok == issued[i].token IN
        /\ rebuild_pqc_message(tok) = tok.header.pqc.sig.msg
        /\ verify_pqc(tok) = "ok"
        /\ verify_token(tok, now) \in {"ok", "expired"}

\* An issued token passed both signature checks in a call
C8_Witness ==
    /\ last.op = "get_current_user"
    /\ last.ok
    /\ last.user.username = "bob"
    /\ \E i \in DOMAIN issued : Len(issued[i].token.payload) = 6

\* C9: every issued token carries a jti claim, and no two issuances carry the
\* same one.
C9_UniqueJti ==
    /\ \A i \in DOMAIN issued : HasKey(issued[i].token.payload, "jti")
    /\ \A i, j \in DOMAIN issued :
            i # j => Get(issued[i].token.payload, "jti")
                        # Get(issued[j].token.payload, "jti")

\* C10: every issued token has exp = iat + ttl, ttl being the expires_delta
\* argument or 30 minutes when it is absent (or zero), and exp > iat.
C10_ExpiryAfterIssue ==
    \A i \in DOMAIN issued :
        LET claims == issued[i].token.payload
            ttl == IF issued[i].expires_delta.none \/ issued[i].expires_delta.secs = 0
                   THEN timedelta_minutes(ACCESS_TOKEN_EXPIRE_MINUTES)
                   ELSE issued[i].expires_delta.secs
        IN  /\ Get(claims, "exp").n = Get(claims, "iat").n + ttl
            /\ Get(claims, "exp").n > Get(claims, "iat").n

\* C11: a login that names no existing user and a login with a wrong password
\* get the same 401 response, issue no token and leave the stored state as
\* they found it.
C11_LoginFailureUniform ==
    LET found == get_user_by_username(last.pre.users, last.a) IN
    (last.op = "login"
        /\ (found = NoUser \/ ~verify_password(last.b, found.hashed_password))) =>
        /\ last.response = Response(401, "Incorrect username or password",
                                    "WWW-Authenticate: Bearer")
        /\ Len(issued) = last.pre.issued
        /\ justIssued = 0
        /\ users = last.pre.users
        /\ blacklist = last.pre.blacklist

\* A login under a name no user holds any more, with the password of its
\* former holder
C11_Witness ==
    /\ last.op = "login"
    /\ last.a = "admin"
    /\ last.b = "pwA"
    /\ get_user_by_username(last.pre.users, "admin") = NoUser
    /\ last.response.status = 401

LogoutSuccess ==
    Response(200, "Logged out successfully - token has been revoked",
             "Set-Cookie: access_token=; Max-Age=0")

\* C12: a logout request whose token cannot be decoded (malformed, bad
\* signature or expired) still clears the cookie and answers with the success
\* message.
C12_LogoutNeverBlocked ==
    (last.op = "logout" /\ last.cause \in {"malformed", "bad_signature", "expired"})
        => last.response = LogoutSuccess

\* C14: when logout returns for a token get_current_user accepted, the
\* ledger holds an entry keyed by the token's unique id.
C14_LogoutWritesEntry ==
    (last.op = "logout" /\ last.ok) =>
        /\ last.a # ""
        /\ \E row \in blacklist : row.jti = last.a

\* C16: change_password by an authenticated caller with a wrong current
\* password answers 401, and with the right current password and a new
\* password equal to it answers 400; the stored hash stays as it was.
C16_RejectedPasswordChange ==
    LET stored == get_user_by_id(last.pre.users, last.user.id).hashed_password
        after == get_user_by_id(users, last.user.id).hashed_password
        wrong == ~verify_password(last.a, stored)
        same == verify_password(last.a, stored) /\ verify_password(last.b, stored)
    IN  (last.op = "change_password" /\ last.ok) =>
            /\ wrong => (last.response.status = 401 /\ after = stored)
            /\ same => (last.response.status = 400 /\ after = stored)

\* A rejected change to the same password, after an earlier successful change
C16_Witness ==
    /\ last.op = "change_password"
    /\ last.response.status = 400
    /\ passwordChanges # {}

\* C17: from a successful change_password of a user up to that user's next
\* successful change, login with the old password fails and login with the
\* new password succeeds.
C17_NewPasswordOnly ==
    \A c \in passwordChanges :
        LET u == get_user_by_id(users, c.id) IN
        /\ authenticate_user(users, u.username, c.old) = NoUser
        /\ authenticate_user(users, u.username, c.new) = u
        /\ u # NoUser

\* A login with the new password, after the password was changed
C17_Witness ==
    /\ last.op = "login"
    /\ last.response.status = 200
    /\ \E c \in passwordChanges :
            c.id = last.user.id /\ c.new = last.b /\ c.new = "pwB" /\ c.id = 1

\* C18: no token issued to a user before a successful change_password of
\* that user is accepted by get_current_user afterwards.
C18_PasswordChangeEndsSessions ==
    \A i \in sessionsBeforePasswordChange :
        ~get_current_user(issued[i].token, users, now).ok

\* C19 as stated: change_username to the caller's own username, or to one
\* another user holds, fails with 409 and changes no user record.
C19_DuplicateIs409 ==
    LET current == get_user_by_id(last.pre.users, last.user.id)
        unchanged == current.username = last.a
        taken == \E other \in last.pre.users :
                    other.id # current.id /\ other.username = last.a
    IN  (last.op = "change_username" /\ last.ok /\ (unchanged \/ taken)) =>
            /\ last.response.status = 409
            /\ users = last.pre.users

\* C19, amended: change_username to the caller's own username fails with 400,
\* to a username another user holds with 409; neither changes a user record.
C19_UnchangedIs400 ==
    LET current == get_user_by_id(last.pre.users, last.user.id)
        unchanged == current.username = last.a
        taken == \E other \in last.pre.users :
                    other.id # current.id /\ other.username = last.a
    IN  (last.op = "change_username" /\ last.ok) =>
            /\ unchanged => (last.response.status = 400 /\ users = last.pre.users)
            /\ taken => (last.response.status = 409 /\ users = last.pre.users)
            /\ \A u, v \in users : u.username = v.username => u = v

\* A change to a username that another user took over in an earlier change
C19_Witness ==
    /\ last.op = "change_username"
    /\ last.response.status = 409
    /\ last.a = "carol"

\* C20: a token issued to a user before a successful change_username of that
\* user is accepted until its expiry and resolves to the same user id.
C20_SessionsSurviveRename ==
    \A i \in sessionsBeforeUsernameChange :
        LET r == get_current_user(issued[i].token, users, now) IN
        now < Get(issued[i].token.payload, "exp").n =>
            /\ r.ok
            /\ r.user.id = issued[i].user.id

\* C21: a registration under a username that exists when it commits fails
\* with 409 and leaves every user record as it was; a registration under a
\* free username succeeds, so of the registrations of one username (run one
\* after the other or concurrently) exactly one succeeds.
C21_DuplicateRegistration ==
    /\ \A u, v \in users : u.username = v.username => u = v
    /\ last.op = "register" =>
            IF get_user_by_username(last.pre.users, last.a) # NoUser
            THEN last.response.status = 409 /\ users = last.pre.users
            ELSE /\ last.response.status = 201
                 /\ last.pre.users \subseteq users
                 /\ Cardinality(users) = Cardinality(last.pre.users) + 1
    /\ \A name \in RegisterUsernames :
            LET regs == {i \in DOMAIN registrations :
                            registrations[i].username = name}
                won == {i \in regs : registrations[i].status = 201}
            IN  /\ Cardinality(won) <= 1
                /\ (regs # {} /\ \A i \in regs : registrations[i].status # 0) =>
                        (won # {} <=> \E i \in regs : registrations[i].free)

\* The loser of two concurrent registrations of a username that was free
\* when both began
C21_Witness ==
    /\ last.op = "register"
    /\ last.response.status = 409
    /\ last.flag
    /\ last.a = "carol"
    /\ \A i \in DOMAIN registrations :
            registrations[i].username = "carol" /\ registrations[i].free

C25_PrivateKeysStayInside ==
    last.op \in KeyOperations => last.a # "private"

C27_CleanupReturnsCount ==
    (last.op = "cleanup" /\ last.ok) =>
        last.n = Cardinality(last.pre.blacklist) - Cardinality(blacklist)

C29_StatsAddUp ==
    (last.op = "stats" /\ last.ok) =>
        /\ last.stats.total = last.stats.active + last.stats.expired
        /\ last.stats.total = Cardinality(blacklist)
        /\ last.stats.expired =
                Cardinality({r \in blacklist : r.expires_at < last.at})
        /\ last.stats.active =
                Cardinality({r \in blacklist : ~(r.expires_at < last.at)})

C29_Witness ==
    /\ last.op = "stats"
    /\ last.ok
    /\ last.stats.expired > 0
    /\ \E r \in blacklist : r.expires_at = last.at
    /\ \E r \in blacklist : r.expires_at > last.at

\* C30: get_current_user runs its checks in the order primary signature,
\* issuer/audience, expiry, secondary signature, revocation lookup, subject
\* lookup; the checks it has run are an initial part of that list, all of it
\* when the token is accepted.
C30_ChecksInStatedOrder ==
    LET stated == <<"primary_signature", "issuer_audience", "expiry",
                    "secondary_signature", "revocation_lookup", "subject_lookup">>
    IN  last.op = "get_current_user" =>
            /\ Len(last.checks) <= Len(stated)
            /\ last.checks = SubSeq(stated, 1, Len(last.checks))
            /\ last.ok => last.checks = stated

\* C31: a token whose sub names no user record is rejected by get_current_user
\* with the 401 of credentials_exception, whatever its signatures and expiry.
C31_UnknownSubjectRejected ==
    (/\ last.op = "get_current_user"
     /\ \A u \in last.pre.users : u.username # last.a) =>
        /\ ~last.ok
        /\ last.response = credentials_exception

C31_Witness ==
    /\ last.op = "get_current_user"
    /\ last.cause = "unknown_subject"
    /\ last.holders # {}
    /\ \A id \in last.holders : get_user_by_id(users, id) = NoUser
    /\ last.checks[Len(last.checks)] = "subject_lookup"

\* C32: a change_password call succeeds only if the current password it
\* supplied matches the hash stored at the moment its new hash is written.
C32_PasswordChangeAtomic ==
    \A i \in DOMAIN requests :
        (requests[i].op = "change_password" /\ requests[i].status = 200) =>
            requests[i].matched

\* C33: a token that get_current_user accepts authenticates as an account it
\* was issued to.
C33_TokenKeepsItsAccount ==
    (last.op = "get_current_user" /\ last.ok) => last.user.id \in last.holders

\* C34: delete_user answers a request for the caller's own id with 403 and
\* changes nothing, never removes the caller's account, and the users table
\* is never empty.
C34_OneUserRemains ==
    /\ (last.op = "delete_user" /\ last.ok /\ last.n = last.user.id) =>
            /\ last.response.status = 403
            /\ users = last.pre.users
    /\ users # {}

C36_DefaultUserOnlyWhenEmpty ==
    last.op = "lifespan" =>
        /\ last.ok
        /\ (last.pre.users = {} /\ ~last.flag) =>
                /\ Cardinality(users) = 1
                /\ \A u \in users : u.username = DEFAULT_USERNAME
        /\ (last.pre.users # {} \/ last.flag) => users = last.pre.users
        /\ last.again => blacklist = last.pre.blacklist

C36_Witness ==
    /\ last.op = "lifespan"
    /\ last.pre.users = {}
    /\ ~last.flag
    /\ last.again
    /\ users # {}

\* C37: patch_stock and update_item never apply a change on top of an item
\* newer than the caller's If-Unmodified-Since timestamp: a request whose
\* timestamp is older than updated_at gets 412 and changes nothing, and a
\* change is written only while updated_at is not later than the timestamp.
C37_NoWriteOverNewerItem ==
    /\ (/\ last.op \in {"patch_stock", "update_item"}
        /\ last.response.status = 412) => item = last.pre.item
    /\ (last.op = "patch_stock" /\ last.cause = "committed") => last.flag

\* C38: the stock quantity is never negative; patch_stock answers 422 and
\* leaves the stock as it was when both or neither of delta and new_qty are
\* given or the result would be negative, and otherwise stores the quantity
\* it read plus delta, or new_qty.
C38_StockNeverNegative ==
    /\ item.quantity >= 0
    /\ last.op = "patch_stock" =>
            /\ last.cause # "committed" => item = last.pre.item
            /\ last.cause = "committed" => item.quantity = last.n
    /\ last.op = "patch_stock_begin" =>
            /\ last.a \notin {"both", "neither"}
            /\ last.n >= 0
            /\ item = last.pre.item
            /\ requests[Len(requests)].target = last.n
    /\ (/\ last.op = "patch_stock"
        /\ last.cause # "committed"
        /\ last.response.status \notin {400, 412, 500}) =>
            /\ last.a \in {"both", "neither"} \/ last.n < 0
            /\ last.response.status = 422

C38_Witness ==
    /\ last.op = "patch_stock"
    /\ last.response.status = 422
    /\ last.a = "delta"
    /\ last.n < 0
    /\ item.quantity > 0
    /\ item.updated_at > 0

====
